---------------------------- MODULE Spec2Model ----------------------------
(***************************************************************************)
(* Model of the point-of-sale application:                                 *)
(*   - the MealBuilder component (src/unnamed/part_001, lines 383-667),    *)
(*   - the /api/menu route handlers (src/src/app/api/menu/route.ts),       *)
(*   - the /api/transactions route handlers                                *)
(*     (src/src/app/api/transactions/route.ts).                            *)
(* The data layer (@/lib/menu, @/lib/transactions) and the parent of       *)
(* MealBuilder (the owner of onUpdateMeal) are not part of the sources;    *)
(* they are modelled from the specification and marked so below.           *)
(***************************************************************************)
EXTENDS Integers, Sequences, FiniteSets

VARIABLES
    size,       \* MealBuilder prop: the meal size
    meal,       \* MealBuilder prop: the meal in progress (five slots)
    view,       \* what MealBuilder rendered from (size, meal)
    menuDb,     \* rows of the menu table
    menuNextId, \* next serial id of the menu table
    txDb,       \* rows of the transactions table
    txNextId,   \* next serial id of the transactions table
    req,        \* the request being handled by the route handler
    resp,       \* the response the handler returned
    called,     \* the data-layer functions the handler called, in order
    invDb,      \* rows of the inventory table
    invNextId,  \* next serial id of the inventory table
    invCall,    \* the last call of a function of lib/inventory, with its result
    inventory,  \* ManageInventory state: the displayed list
    selectedItem, \* ManageInventory state: the item being edited, or null
    form,       \* ManageInventory state: name, amount, unit, reorder
    error,      \* ManageInventory state: the error message, or null
    isLoading,  \* ManageInventory state
    pc,         \* ManageInventory: the handler running and the await it is at
    net         \* ManageInventory: the last response fetch() resolved with

mealVars == <<size, meal, view>>
apiVars == <<menuDb, menuNextId, txDb, txNextId, req, resp, called>>
invVars == <<invDb, invNextId, invCall>>
pageVars == <<inventory, selectedItem, form, error, isLoading, pc, net>>

vars == <<mealVars, apiVars, invVars, pageVars>>

-----------------------------------------------------------------------------
(* Bounds *)

\* number of side items on the menu
NumSides == 2
\* number of entree items on the menu
NumEntrees == 3
\* longest value of the id query parameter
MaxLen == 2
\* most rows ever inserted, over the menu and the transactions tables
MaxRows == 2
\* most rows ever inserted into the inventory table
MaxInv == 2

-----------------------------------------------------------------------------
(* MealBuilder: types *)

\* SizeEnum
Sizes == {"bowl", "plate", "bigger plate"}

\* the null of an empty slot; no menu item has id 0
Null == [id |-> 0, item_type |-> "null"]

SideItems == {[id |-> i, item_type |-> "side"] : i \in 1..NumSides}
EntreeItems == {[id |-> NumSides + i, item_type |-> "entree"] : i \in 1..NumEntrees}

\* the menuItems prop
menuItems == SideItems \cup EntreeItems

\* MealInProgress with every slot empty
EmptyMeal == [side1 |-> Null, side2 |-> Null,
              entree1 |-> Null, entree2 |-> Null, entree3 |-> Null]

SideSlots == {"side1", "side2"}
EntreeSlots == {"entree1", "entree2", "entree3"}

\* every value of the meal prop: any side or null in a side slot, any entree
\* or null in an entree slot
AllMeals == [side1 : SideItems \cup {Null}, side2 : SideItems \cup {Null},
             entree1 : EntreeItems \cup {Null}, entree2 : EntreeItems \cup {Null},
             entree3 : EntreeItems \cup {Null}]

-----------------------------------------------------------------------------
(* MealBuilder: the functions of the component *)

getMealRequirementsSwapped(sz) ==
    CASE sz = "bowl" -> [sides |-> 1, entrees |-> 1]
      [] sz = "plate" -> [sides |-> 2, entrees |-> 1]
      [] sz = "bigger plate" -> [sides |-> 2, entrees |-> 3]
      [] OTHER -> [sides |-> 1, entrees |-> 1]

getMealRequirements(sz) ==
    CASE sz = "bowl" -> [sides |-> 1, entrees |-> 1]
      [] sz = "plate" -> [sides |-> 1, entrees |-> 2]
      [] sz = "bigger plate" -> [sides |-> 2, entrees |-> 3]
      [] OTHER -> [sides |-> 1, entrees |-> 1]

\* JavaScript truthiness of a slot: an item object is truthy, null is falsy
Truthy(slot) == slot # Null

Inc(b) == IF b THEN 1 ELSE 0

\* getProgress with the quota of the size ignored for the second side
getProgressAllSides(sz, m) ==
    LET requirements == getMealRequirements(sz)
        total == requirements.sides + requirements.entrees
        filled == Inc(Truthy(m.side1)) + Inc(Truthy(m.side2))
                  + Inc(Truthy(m.entree1))
                  + Inc(requirements.entrees >= 2 /\ Truthy(m.entree2))
                  + Inc(requirements.entrees >= 3 /\ Truthy(m.entree3))
    IN  [num |-> filled * 100, den |-> total]

\* (filled / total) * 100, kept as the exact fraction num/den: the double the
\* code computes is the double nearest to it, and compares with 100 the same
\* way since filled = total gives exactly 100
getProgress(sz, m) ==
    LET requirements == getMealRequirements(sz)
        total == requirements.sides + requirements.entrees
        sides == IF requirements.sides = 1
                 THEN Inc(Truthy(m.side1))
                 ELSE Inc(Truthy(m.side1)) + Inc(Truthy(m.side2))
        filled == sides
                  + Inc(Truthy(m.entree1))
                  + Inc(requirements.entrees >= 2 /\ Truthy(m.entree2))
                  + Inc(requirements.entrees >= 3 /\ Truthy(m.entree3))
    IN  [num |-> filled * 100, den |-> total]

AddToOrderDisabledLoose(sz, m) ==
    getProgress(sz, m).num < 100 * (getProgress(sz, m).den - 1)

\* disabled={getProgress() < 100}
AddToOrderDisabled(sz, m) ==
    getProgress(sz, m).num < 100 * getProgress(sz, m).den

Push(b, s) == IF b THEN <<s>> ELSE <<>>

\* getRequiredItems asking for the second side whatever the size
getRequiredItemsAllSides(sz, m) ==
    LET requirements == getMealRequirements(sz)
    IN  Push(~Truthy(m.side1), "first side")
        \o Push(~Truthy(m.side2), "second side")
        \o Push(~Truthy(m.entree1), "first entree")
        \o Push(requirements.entrees >= 2 /\ ~Truthy(m.entree2), "second entree")
        \o Push(requirements.entrees >= 3 /\ ~Truthy(m.entree3), "third entree")

getRequiredItems(sz, m) ==
    LET requirements == getMealRequirements(sz)
        sides == IF requirements.sides = 1
                 THEN Push(~Truthy(m.side1), "side")
                 ELSE Push(~Truthy(m.side1), "first side")
                      \o Push(~Truthy(m.side2), "second side")
    IN  sides
        \o Push(~Truthy(m.entree1), "first entree")
        \o Push(requirements.entrees >= 2 /\ ~Truthy(m.entree2), "second entree")
        \o Push(requirements.entrees >= 3 /\ ~Truthy(m.entree3), "third entree")

\* isSideDisabled without the comparison against the occupying item
isSideDisabledNoId(sz, m, item) ==
    LET requirements == getMealRequirements(sz)
    IN  IF requirements.sides = 1
        THEN m.side1 # Null
        ELSE m.side1 # Null /\ m.side2 # Null

isSideDisabled(sz, m, item) ==
    LET requirements == getMealRequirements(sz)
    IN  IF requirements.sides = 1
        THEN m.side1 # Null /\ m.side1.id # item.id
        ELSE m.side1 # Null /\ m.side2 # Null
             /\ m.side1.id # item.id /\ m.side2.id # item.id

isEntreeDisabled(sz, m, item) ==
    IF sz = "bowl"
    THEN m.entree1 # Null /\ m.entree1.id # item.id
    ELSE IF sz = "plate"
    THEN m.entree1 # Null /\ m.entree2 # Null
         /\ m.entree1.id # item.id /\ m.entree2.id # item.id
    ELSE m.entree1 # Null /\ m.entree2 # Null /\ m.entree3 # Null
         /\ m.entree1.id # item.id /\ m.entree2.id # item.id
         /\ m.entree3.id # item.id

\* the parent's onUpdateMeal filling the last slot of the category first
onUpdateMealLastFirst(m, item) ==
    IF item.item_type = "side"
    THEN IF m.side2 = Null THEN [m EXCEPT !.side2 = item]
         ELSE IF m.side1 = Null THEN [m EXCEPT !.side1 = item]
         ELSE m
    ELSE IF m.entree3 = Null THEN [m EXCEPT !.entree3 = item]
         ELSE IF m.entree2 = Null THEN [m EXCEPT !.entree2 = item]
         ELSE IF m.entree1 = Null THEN [m EXCEPT !.entree1 = item]
         ELSE m

\* the parent's onUpdateMeal: the item goes into the next open slot of its
\* category, side1 before side2, entree1 before entree2 before entree3; with
\* no open slot the meal is left as it is
onUpdateMeal(m, item) ==
    IF item.item_type = "side"
    THEN IF m.side1 = Null THEN [m EXCEPT !.side1 = item]
         ELSE IF m.side2 = Null THEN [m EXCEPT !.side2 = item]
         ELSE m
    ELSE IF m.entree1 = Null THEN [m EXCEPT !.entree1 = item]
         ELSE IF m.entree2 = Null THEN [m EXCEPT !.entree2 = item]
         ELSE IF m.entree3 = Null THEN [m EXCEPT !.entree3 = item]
         ELSE m

\* the render of the component: the Progress value, the Alert, the disabled
\* attribute of every item button and of the Add to Order button
Render(sz, m) ==
    [requirements |-> getMealRequirements(sz),
     progress |-> getProgress(sz, m),
     remaining |-> getRequiredItems(sz, m),
     alert |-> Len(getRequiredItems(sz, m)) > 0,
     disabled |-> {item \in SideItems : isSideDisabled(sz, m, item)}
                  \cup {item \in EntreeItems : isEntreeDisabled(sz, m, item)},
     addToOrderDisabled |-> AddToOrderDisabled(sz, m)]

-----------------------------------------------------------------------------
(* Values of the variables a specification does not use *)

NoReq == [route |-> "none", op |-> "none", thrown |-> FALSE]
NoResp == [status |-> 0]

ApiIdle ==
    /\ menuDb = {}
    /\ menuNextId = 1
    /\ txDb = {}
    /\ txNextId = 1
    /\ req = NoReq
    /\ resp = NoResp
    /\ called = <<>>

MealIdle ==
    /\ size = "bowl"
    /\ meal = EmptyMeal
    /\ view = Render("bowl", EmptyMeal)

NoCall == [fn |-> "none"]

\* null as the value of selectedItem and of a lookup that found no row
NoItem == [id |-> 0]

\* null as the value of error
NoError == "null"

\* the form with every field as useState initialises it
EmptyForm == [name |-> <<>>, amount |-> "", unit |-> "", reorder |-> FALSE]

InvIdle ==
    /\ invDb = {}
    /\ invNextId = 1
    /\ invCall = NoCall

\* ManageInventory not mounted
PageIdle ==
    /\ inventory = <<>>
    /\ selectedItem = NoItem
    /\ form = EmptyForm
    /\ error = NoError
    /\ isLoading = TRUE
    /\ pc = [at |-> "unmounted", op |-> "none"]
    /\ net = [ok |-> TRUE, data |-> <<>>]

-----------------------------------------------------------------------------
(* MealBuilder driven by clicks: the parent starts a meal of a fixed size    *)
(* with every slot empty and applies onUpdateMeal on every click             *)

Init ==
    /\ size \in Sizes
    /\ meal = EmptyMeal
    /\ view = Render(size, meal)
    /\ ApiIdle
    /\ InvIdle
    /\ PageIdle

\* a click on the button of a side item; a disabled button takes no click
ClickSide ==
    \E item \in SideItems :
        /\ item \notin view.disabled
        /\ meal' = onUpdateMeal(meal, item)
        /\ view' = Render(size, meal')
        /\ UNCHANGED <<size, apiVars, invVars, pageVars>>

\* a click on the button of an entree item
ClickEntree ==
    \E item \in EntreeItems :
        /\ item \notin view.disabled
        /\ meal' = onUpdateMeal(meal, item)
        /\ view' = Render(size, meal')
        /\ UNCHANGED <<size, apiVars, invVars, pageVars>>

Next == ClickSide \/ ClickEntree

Spec == Init /\ [][Next]_vars

-----------------------------------------------------------------------------
(* MealBuilder as a function of its props: rendered with any size and any    *)
(* meal, and rendered again when the parent changes a prop                   *)

InitProps ==
    /\ size \in Sizes
    /\ meal \in AllMeals
    /\ view = Render(size, meal)
    /\ ApiIdle
    /\ InvIdle
    /\ PageIdle

SetSize ==
    \E sz \in Sizes :
        /\ size' = sz
        /\ view' = Render(sz, meal)
        /\ UNCHANGED <<meal, apiVars, invVars, pageVars>>

SetSideSlot ==
    \E slot \in SideSlots, v \in SideItems \cup {Null} :
        /\ meal' = [meal EXCEPT ![slot] = v]
        /\ view' = Render(size, meal')
        /\ UNCHANGED <<size, apiVars, invVars, pageVars>>

SetEntreeSlot ==
    \E slot \in EntreeSlots, v \in EntreeItems \cup {Null} :
        /\ meal' = [meal EXCEPT ![slot] = v]
        /\ view' = Render(size, meal')
        /\ UNCHANGED <<size, apiVars, invVars, pageVars>>

NextProps == SetSize \/ SetSideSlot \/ SetEntreeSlot

SpecProps == InitProps /\ [][NextProps]_vars

-----------------------------------------------------------------------------
(* JavaScript values of the request bodies and of the rows *)

Undefined == [undef |-> TRUE]
JNull == [null |-> TRUE]
NaN == [nan |-> TRUE]
Str(s) == [str |-> s]
Num(n) == [num |-> n]
Bool(b) == [bool |-> b]
Arr(a) == [arr |-> a]

\* !v
Falsy(v) == v \in {Undefined, JNull, NaN, Str(""), Num(0), Bool(FALSE)}

\* the characters a query parameter is made of
Chars == {"0", "1", "a", "x", "-"}

RECURSIVE StringsUpTo(_)
StringsUpTo(n) ==
    IF n = 0 THEN {<<>>}
    ELSE LET shorter == StringsUpTo(n - 1)
         IN  shorter \cup {Append(t, c) : t \in {u \in shorter : Len(u) = n - 1}, c \in Chars}

\* searchParams.get('id'): null when the parameter is missing, else its text
QueryIds == {JNull} \cup {[chars |-> t] : t \in StringsUpTo(MaxLen)}

\* !id for the value of searchParams.get('id'): null and '' are falsy
ParamFalsy(id) == id = JNull \/ id.chars = <<>>

\* the value of a digit character, 99 for a character that is no digit
DigitValue(c) ==
    CASE c = "0" -> 0 [] c = "1" -> 1 [] c = "2" -> 2 [] c = "3" -> 3
      [] c = "4" -> 4 [] c = "5" -> 5 [] c = "6" -> 6 [] c = "7" -> 7
      [] c = "8" -> 8 [] c = "9" -> 9 [] c = "a" -> 10 [] c = "b" -> 11
      [] c = "c" -> 12 [] c = "d" -> 13 [] c = "e" -> 14 [] c = "f" -> 15
      [] OTHER -> 99

RECURSIVE StripLeft(_)
StripLeft(t) ==
    IF t # <<>> /\ Head(t) = " " THEN StripLeft(Tail(t)) ELSE t

\* the digits of the longest prefix of t in the radix, as <<count, value>>
RECURSIVE ParsePrefix(_, _, _, _)
ParsePrefix(t, radix, count, acc) ==
    IF t # <<>> /\ DigitValue(Head(t)) < radix
    THEN ParsePrefix(Tail(t), radix, count + 1, acc * radix + DigitValue(Head(t)))
    ELSE <<count, acc>>

\* parseInt(string) with no radix: leading white space and a sign are
\* skipped, 0x selects radix 16, the longest prefix of digits is the value,
\* and there is no value (NaN) when that prefix is empty
parseInt(t) ==
    LET u == StripLeft(t)
        neg == u # <<>> /\ Head(u) = "-"
        v == IF u # <<>> /\ Head(u) \in {"+", "-"} THEN Tail(u) ELSE u
        hex == Len(v) >= 2 /\ v[1] = "0" /\ v[2] \in {"x", "X"}
        r == IF hex THEN ParsePrefix(Tail(Tail(v)), 16, 0, 0)
             ELSE ParsePrefix(v, 10, 0, 0)
    IN  IF r[1] = 0 THEN NaN
        ELSE IF neg THEN Num(0 - r[2]) ELSE Num(r[2])

isNaN(v) == v = NaN

\* Number(value) for the values a sale price is drawn from
Number(v) ==
    CASE v = JNull -> Num(0)
      [] v = Str("") -> Num(0)
      [] v = Str("7") -> Num(7)
      [] v = Bool(FALSE) -> Num(0)
      [] v = Bool(TRUE) -> Num(1)
      [] "num" \in DOMAIN v -> v
      [] OTHER -> NaN

-----------------------------------------------------------------------------
(* The data layer, @/lib/menu and @/lib/transactions: one parameterized SQL  *)
(* statement per function                                                    *)

\* SELECT ... WHERE id = $1: the row or null
getMenuItemById(db, id) ==
    IF \E row \in db : Num(row.id) = id
    THEN CHOOSE row \in db : Num(row.id) = id
    ELSE JNull

\* INSERT ... RETURNING *: the row with the next serial id
addMenuItem(nextId, item_type, name, price, premium, ingredients) ==
    [id |-> nextId, item_type |-> item_type, name |-> name, price |-> price,
     premium |-> premium, ingredients |-> ingredients]

\* UPDATE ... WHERE id = $1 RETURNING *: the updated row, or null when no row
\* has the id; the fields named in updates are set, the ingredients replaced
updateMenuItem(db, id, updates, ingredients) ==
    LET row == getMenuItemById(db, id)
    IN  IF row = JNull THEN JNull
        ELSE [row EXCEPT !.name = IF updates.name = Undefined THEN @ ELSE updates.name,
                         !.ingredients = ingredients]

\* DELETE ... WHERE id = $1
deleteMenuItem(db, id) == {row \in db : Num(row.id) # id}

getTransactionDetails(db, id) == getMenuItemById(db, id)

\* INSERT ... RETURNING *
addTransaction(nextId, t) ==
    [id |-> nextId, customerName |-> t.customerName, cashierName |-> t.cashierName,
     salePrice |-> t.salePrice, items |-> t.items, meals |-> t.meals,
     appetizers |-> t.appetizers, drinks |-> t.drinks]

-----------------------------------------------------------------------------
(* The route handlers *)

\* NextResponse.json(body, {status})
Json(status, kind, data) ==
    [status |-> status, kind |-> kind, data |-> data, details |-> FALSE]

\* the error response without the caught error in it
JsonWithoutDetails(status, data) ==
    [status |-> status, kind |-> "error", data |-> data, details |-> FALSE]

\* NextResponse.json({error, details: error}, {status})
JsonDetails(status, data) ==
    [status |-> status, kind |-> "error", data |-> data, details |-> TRUE]

\* what a handler did: its response, the data-layer calls it made, and the
\* table and serial it left
Outcome(r, calls, db, nextId) ==
    [resp |-> r, called |-> calls, db |-> db, nextId |-> nextId]

\* the bodies of POST /api/menu: a field is undefined when the body lacks it
MenuPostBodies ==
    [item_type : {Undefined, Str(""), Str("side")},
     name : {Undefined, Str(""), Str("n")},
     price : {Undefined, Num(0)},
     premium : {Undefined, Bool(FALSE)},
     ingredients : {Undefined, Arr(<<7>>)}]

\* the bodies of PUT /api/menu
MenuPutBodies ==
    [id : {Undefined} \cup {Num(n) : n \in 0..MaxRows + 1},
     name : {Undefined, Str("m")},
     ingredients : {Undefined}]

\* the bodies of POST /api/transactions
CountFields == {"items", "meals", "appetizers", "drinks"}

\* the count fields a body lacks: none, one of them, or all four
AbsentCounts == {{}, CountFields} \cup {{f} : f \in CountFields}

Count(f, absent) == IF f \in absent THEN Undefined ELSE Num(2)

TxPostBodies ==
    {[customerName |-> c, cashierName |-> k, salePrice |-> p,
      items |-> Count("items", a), meals |-> Count("meals", a),
      appetizers |-> Count("appetizers", a), drinks |-> Count("drinks", a)] :
        c \in {Undefined, Str(""), Str("c")},
        k \in {Undefined, JNull, Str("k")},
        p \in {Undefined, Num(0), Str("7")},
        a \in AbsentCounts}

\* a body request.json() rejects
BadJson == [badJson |-> TRUE]

\* a lookup that never reports a missing row
NotFoundNever(row) == FALSE

\* !menuItem, !updatedItem, !transaction: a row object is truthy, null is not
NotFound(row) == row = JNull

\* menu GET, lines 12-34
MenuGETHandler(id, throws, db, nextId) ==
    IF ~ParamFalsy(id)
    THEN IF throws
         THEN Outcome(Json(500, "error", "Failed to fetch menu items."),
                      <<"getMenuItemById">>, db, nextId)
         ELSE LET menuItem == getMenuItemById(db, parseInt(id.chars))
              IN  IF NotFound(menuItem)
                  THEN Outcome(Json(404, "error", "Menu item not found."),
                               <<"getMenuItemById">>, db, nextId)
                  ELSE Outcome(Json(200, "record", menuItem),
                               <<"getMenuItemById">>, db, nextId)
    ELSE IF throws
         THEN Outcome(Json(500, "error", "Failed to fetch menu items."),
                      <<"getAllMenuItems">>, db, nextId)
         ELSE Outcome(Json(200, "list", db), <<"getAllMenuItems">>, db, nextId)

\* the validation of menu POST with the premium check left out
MenuPostInvalidNoPremium(body) ==
    Falsy(body.item_type) \/ Falsy(body.name) \/ body.price = Undefined

\* menu POST, line 41
MenuPostInvalid(body) ==
    \/ Falsy(body.item_type)
    \/ Falsy(body.name)
    \/ body.price = Undefined
    \/ body.premium = Undefined

\* menu POST, lines 37-57; jsonOk is false when request.json() throws
MenuPOSTHandler(jsonOk, body, throws, db, nextId) ==
    IF ~jsonOk
    THEN Outcome(Json(500, "error", "Failed to add menu item."), <<>>, db, nextId)
    ELSE IF MenuPostInvalid(body)
    THEN Outcome(Json(400, "error", "Invalid input. All fields are required."),
                 <<>>, db, nextId)
    ELSE IF throws
    THEN Outcome(Json(500, "error", "Failed to add menu item."),
                 <<"addMenuItem">>, db, nextId)
    ELSE LET ingredients == IF body.ingredients = Undefined THEN Arr(<<>>)
                            ELSE body.ingredients
             newItem == addMenuItem(nextId, body.item_type, body.name, body.price,
                                    body.premium, ingredients)
         IN  Outcome(Json(201, "record", newItem), <<"addMenuItem">>,
                     db \cup {newItem}, nextId + 1)

\* menu PUT, line 64
MenuPutInvalid(body) == Falsy(body.id)

\* menu PUT, lines 60-87
MenuPUTHandler(jsonOk, body, throws, db, nextId) ==
    IF ~jsonOk
    THEN Outcome(Json(500, "error", "Failed to update menu item."), <<>>, db, nextId)
    ELSE IF MenuPutInvalid(body)
    THEN Outcome(Json(400, "error", "ID is required to update the menu item."),
                 <<>>, db, nextId)
    ELSE IF throws
    THEN Outcome(Json(500, "error", "Failed to update menu item."),
                 <<"updateMenuItem">>, db, nextId)
    ELSE LET updates == [name |-> body.name, ingredients |-> body.ingredients]
             ingredients == IF Falsy(updates.ingredients) THEN Arr(<<>>)
                            ELSE updates.ingredients
             updatedItem == updateMenuItem(db, body.id, updates, ingredients)
         IN  IF NotFound(updatedItem)
             THEN Outcome(Json(404, "error", "Menu item not found."),
                          <<"updateMenuItem">>, db, nextId)
             ELSE Outcome(Json(200, "record", updatedItem), <<"updateMenuItem">>,
                          {row \in db : row.id # updatedItem.id} \cup {updatedItem},
                          nextId)

\* menu DELETE, line 94
DeleteIdInvalid(id) == ParamFalsy(id) \/ isNaN(parseInt(id.chars))

\* menu DELETE, lines 90-111
MenuDELETEHandler(id, throws, db, nextId) ==
    IF DeleteIdInvalid(id)
    THEN Outcome(Json(400, "error", "Invalid or missing menu item ID."),
                 <<>>, db, nextId)
    ELSE IF throws
    THEN Outcome(Json(500, "error", "Failed to delete menu item."),
                 <<"deleteMenuItem">>, db, nextId)
    ELSE Outcome(Json(200, "message", "Menu item deleted successfully."),
                 <<"deleteMenuItem">>, deleteMenuItem(db, parseInt(id.chars)), nextId)

\* transactions GET, lines 10-36
TxGETHandler(id, throws, db, nextId) ==
    IF ~ParamFalsy(id)
    THEN IF throws
         THEN Outcome(JsonDetails(500, "Failed to fetch transactions"),
                      <<"getTransactionDetails">>, db, nextId)
         ELSE LET transaction == getTransactionDetails(db, parseInt(id.chars))
              IN  IF NotFound(transaction)
                  THEN Outcome(Json(404, "error", "Transaction not found"),
                               <<"getTransactionDetails">>, db, nextId)
                  ELSE Outcome(Json(200, "record", transaction),
                               <<"getTransactionDetails">>, db, nextId)
    ELSE IF throws
         THEN Outcome(JsonDetails(500, "Failed to fetch transactions"),
                      <<"getTransactions">>, db, nextId)
         ELSE Outcome(Json(200, "list", db), <<"getTransactions">>, db, nextId)

\* a destructuring without the default
NoDefault(v) == v

\* transactions POST, lines 46-49: items = 0 and the like
DefaultZero(v) == IF v = Undefined THEN Num(0) ELSE v

\* transactions POST, line 52
TxPostInvalid(body) ==
    \/ Falsy(body.customerName)
    \/ Falsy(body.cashierName)
    \/ body.salePrice = Undefined

\* transactions POST, lines 39-77
TxPOSTHandler(jsonOk, body, throws, db, nextId) ==
    IF ~jsonOk
    THEN Outcome(JsonDetails(500, "Failed to create transaction"), <<>>, db, nextId)
    ELSE IF TxPostInvalid(body)
    THEN Outcome(Json(400, "error", "Missing required fields"), <<>>, db, nextId)
    ELSE IF throws
    THEN Outcome(JsonDetails(500, "Failed to create transaction"),
                 <<"addTransaction">>, db, nextId)
    ELSE LET newTransaction ==
                 addTransaction(nextId,
                     [customerName |-> body.customerName,
                      cashierName |-> body.cashierName,
                      salePrice |-> Number(body.salePrice),
                      items |-> DefaultZero(body.items),
                      meals |-> DefaultZero(body.meals),
                      appetizers |-> DefaultZero(body.appetizers),
                      drinks |-> DefaultZero(body.drinks)])
         IN  Outcome(Json(200, "record", newTransaction), <<"addTransaction">>,
                     db \cup {newTransaction}, nextId + 1)

-----------------------------------------------------------------------------
(* The two routes: one request is handled at a time, from arrival to         *)
(* response. A handler's data-layer call may throw.                          *)

Idle == req.op = "none"

InitApi ==
    /\ MealIdle
    /\ ApiIdle
    /\ InvIdle
    /\ PageIdle

\* whether something threw inside the handler's try block: request.json()
\* on a bad body, or the data-layer call the handler reached
Thrown(jsonOk, throws, out) == ~jsonOk \/ (throws /\ out.called # <<>>)

\* rows inserted so far, over both tables
Inserted == (menuNextId - 1) + (txNextId - 1)

\* the outcome of a menu handler becomes the state
MenuApply(r, out) ==
    /\ req' = r
    /\ resp' = out.resp
    /\ called' = out.called
    /\ menuDb' = out.db
    /\ menuNextId' = out.nextId
    /\ UNCHANGED <<txDb, txNextId, mealVars, invVars, pageVars>>

\* the outcome of a transactions handler becomes the state
TxApply(r, out) ==
    /\ req' = r
    /\ resp' = out.resp
    /\ called' = out.called
    /\ txDb' = out.db
    /\ txNextId' = out.nextId
    /\ UNCHANGED <<menuDb, menuNextId, mealVars, invVars, pageVars>>

MenuGET ==
    /\ Idle
    /\ \E id \in QueryIds, throws \in BOOLEAN :
           LET out == MenuGETHandler(id, throws, menuDb, menuNextId)
           IN  MenuApply([route |-> "menu", op |-> "GET", id |-> id,
                          thrown |-> Thrown(TRUE, throws, out)], out)

MenuPOST ==
    /\ Idle
    /\ \E body \in MenuPostBodies \cup {BadJson}, throws \in BOOLEAN :
           LET out == MenuPOSTHandler(body # BadJson, body, throws, menuDb, menuNextId)
           IN  /\ out.nextId > menuNextId => Inserted < MaxRows
               /\ MenuApply([route |-> "menu", op |-> "POST", body |-> body,
                             thrown |-> Thrown(body # BadJson, throws, out)], out)

MenuPUT ==
    /\ Idle
    /\ \E body \in MenuPutBodies \cup {BadJson}, throws \in BOOLEAN :
           LET out == MenuPUTHandler(body # BadJson, body, throws, menuDb, menuNextId)
           IN  MenuApply([route |-> "menu", op |-> "PUT", body |-> body,
                          thrown |-> Thrown(body # BadJson, throws, out)], out)

MenuDELETE ==
    /\ Idle
    /\ \E id \in QueryIds, throws \in BOOLEAN :
           LET out == MenuDELETEHandler(id, throws, menuDb, menuNextId)
           IN  MenuApply([route |-> "menu", op |-> "DELETE", id |-> id,
                          thrown |-> Thrown(TRUE, throws, out)], out)

TxGET ==
    /\ Idle
    /\ \E id \in QueryIds, throws \in BOOLEAN :
           LET out == TxGETHandler(id, throws, txDb, txNextId)
           IN  TxApply([route |-> "transactions", op |-> "GET", id |-> id,
                        thrown |-> Thrown(TRUE, throws, out)], out)

TxPOST ==
    /\ Idle
    /\ \E body \in TxPostBodies \cup {BadJson}, throws \in BOOLEAN :
           LET out == TxPOSTHandler(body # BadJson, body, throws, txDb, txNextId)
           IN  /\ out.nextId > txNextId => Inserted < MaxRows
               /\ TxApply([route |-> "transactions", op |-> "POST", body |-> body,
                           thrown |-> Thrown(body # BadJson, throws, out)], out)

\* the response has been sent; the next request can arrive
Respond ==
    /\ ~Idle
    /\ req' = NoReq
    /\ resp' = NoResp
    /\ called' = <<>>
    /\ UNCHANGED <<menuDb, menuNextId, txDb, txNextId, mealVars, invVars, pageVars>>

NextApi ==
    \/ MenuGET \/ MenuPOST \/ MenuPUT \/ MenuDELETE
    \/ TxGET \/ TxPOST
    \/ Respond

SpecApi == InitApi /\ [][NextApi]_vars

-----------------------------------------------------------------------------
(* lib/inventory: one parameterized SQL statement per function               *)

\* the item names used, as texts of characters
Rice == <<"r", "i">>
Soy == <<"S", "o">>
ItemNames == {Rice, Soy}

\* the amounts used: 0 is an item that ran out
Amounts == {0, 5}

\* SELECT * FROM inventory WHERE id = $1: item || null
getInventoryById(db, id) ==
    IF \E item \in db : item.id = id
    THEN CHOOSE item \in db : item.id = id
    ELSE NoItem

\* INSERT INTO inventory (name, amount, unit, reorder) ... RETURNING *
addInventory(db, nextId, nm, amt, unt, reord) ==
    LET item == [id |-> nextId, name |-> nm, amount |-> amt, unit |-> unt,
                 reorder |-> reord]
    IN  [db |-> db \cup {item}, item |-> item]

\* an update that derives the flag from the amount
updateInventoryComputed(db, id, nm, amt, unt, reord) ==
    LET old == getInventoryById(db, id)
        item == [id |-> id, name |-> nm, amount |-> amt, unit |-> unt,
                 reorder |-> (amt = 0)]
    IN  IF old = NoItem THEN [db |-> db, item |-> NoItem]
        ELSE [db |-> (db \ {old}) \cup {item}, item |-> item]

\* UPDATE inventory SET name, amount, unit, reorder WHERE id = $5 RETURNING *:
\* the updated row, or no row (undefined) when the id matches none
updateInventory(db, id, nm, amt, unt, reord) ==
    LET old == getInventoryById(db, id)
        item == [id |-> id, name |-> nm, amount |-> amt, unit |-> unt,
                 reorder |-> reord]
    IN  IF old = NoItem THEN [db |-> db, item |-> NoItem]
        ELSE [db |-> (db \ {old}) \cup {item}, item |-> item]

\* DELETE FROM inventory WHERE id = $1
deleteInventory(db, id) == [db |-> {item \in db : item.id # id}, item |-> NoItem]

\* the ids a caller names: those ever given out and one never given out
InvIds == 1..MaxInv + 1

InitInv ==
    /\ MealIdle
    /\ ApiIdle
    /\ InvIdle
    /\ PageIdle

InvApply(call, out) ==
    /\ invDb' = out.db
    /\ invCall' = [call EXCEPT !.result = out.item]
    /\ UNCHANGED <<mealVars, apiVars, pageVars>>

AddInventory ==
    \E nm \in ItemNames, amt \in Amounts, reord \in BOOLEAN :
        /\ invNextId <= MaxInv
        /\ invNextId' = invNextId + 1
        /\ InvApply([fn |-> "addInventory", id |-> invNextId, name |-> nm,
                     amount |-> amt, reorder |-> reord, result |-> NoItem],
                    addInventory(invDb, invNextId, nm, amt, "kg", reord))

UpdateInventory ==
    \E id \in InvIds, nm \in ItemNames, amt \in Amounts, reord \in BOOLEAN :
        /\ UNCHANGED invNextId
        /\ InvApply([fn |-> "updateInventory", id |-> id, name |-> nm,
                     amount |-> amt, reorder |-> reord, result |-> NoItem],
                    updateInventory(invDb, id, nm, amt, "kg", reord))

DeleteInventory ==
    \E id \in InvIds :
        /\ UNCHANGED invNextId
        /\ InvApply([fn |-> "deleteInventory", id |-> id, result |-> NoItem],
                    deleteInventory(invDb, id))

NextInv == AddInventory \/ UpdateInventory \/ DeleteInventory

SpecInv == InitInv /\ [][NextInv]_vars

-----------------------------------------------------------------------------
(* ManageInventory: the functions of the component *)

Lowers == <<"a", "b", "c", "d", "e", "f", "g", "h", "i", "j", "k", "l", "m",
            "n", "o", "p", "q", "r", "s", "t", "u", "v", "w", "x", "y", "z">>
Uppers == <<"A", "B", "C", "D", "E", "F", "G", "H", "I", "J", "K", "L", "M",
            "N", "O", "P", "Q", "R", "S", "T", "U", "V", "W", "X", "Y", "Z">>

IsUpper(c) == \E i \in 1..Len(Uppers) : Uppers[i] = c

\* the place of a letter in the alphabet, whatever its case
LetterRank(c) ==
    IF IsUpper(c) THEN CHOOSE i \in 1..Len(Uppers) : Uppers[i] = c
    ELSE CHOOSE i \in 1..Len(Lowers) : Lowers[i] = c

\* String.prototype.toLowerCase
toLowerCase(t) ==
    [i \in 1..Len(t) |-> IF IsUpper(t[i]) THEN Lowers[LetterRank(t[i])] ELSE t[i]]

\* the order of two letters under localeCompare: by the alphabet first, the
\* lower case before the upper case of the same letter
CompareChar(c, d) ==
    IF LetterRank(c) < LetterRank(d) THEN -1
    ELSE IF LetterRank(c) > LetterRank(d) THEN 1
    ELSE IF c = d THEN 0
    ELSE IF IsUpper(d) THEN -1 ELSE 1

\* String.prototype.localeCompare on texts of letters: negative, zero or
\* positive as a sorts before, with or after b
RECURSIVE localeCompare(_, _)
localeCompare(a, b) ==
    IF a = <<>> /\ b = <<>> THEN 0
    ELSE IF a = <<>> THEN -1
    ELSE IF b = <<>> THEN 1
    ELSE IF CompareChar(Head(a), Head(b)) # 0 THEN CompareChar(Head(a), Head(b))
    ELSE localeCompare(Tail(a), Tail(b))

\* the comparator with its arguments the other way round
compareItemsReversed(a, b) ==
    localeCompare(toLowerCase(b.name), toLowerCase(a.name))

\* the comparator passed to data.sort, lines 61-63
compareItems(a, b) ==
    localeCompare(toLowerCase(a.name), toLowerCase(b.name))

\* x put into a sorted list before the first element it sorts before
RECURSIVE InsertSorted(_, _)
InsertSorted(sorted, x) ==
    IF sorted = <<>> THEN <<x>>
    ELSE IF compareItems(x, Head(sorted)) < 0 THEN <<x>> \o sorted
    ELSE <<Head(sorted)>> \o InsertSorted(Tail(sorted), x)

\* Array.prototype.sort with the comparator: a stable sort
RECURSIVE SortItems(_)
SortItems(data) ==
    IF data = <<>> THEN <<>>
    ELSE InsertSorted(SortItems(SubSeq(data, 1, Len(data) - 1)), data[Len(data)])

\* the state of the component as one record
PageState ==
    [inventory |-> inventory, selectedItem |-> selectedItem, form |-> form,
     error |-> error, isLoading |-> isLoading]

\* the state setters have run: the record becomes the state
SetPageState(S) ==
    /\ inventory' = S.inventory
    /\ selectedItem' = S.selectedItem
    /\ form' = S.form
    /\ error' = S.error
    /\ isLoading' = S.isLoading

\* fetchInventory, lines 54-70, once fetch has resolved with r
fetchInventory(S, r) ==
    IF r.ok
    THEN [S EXCEPT !.inventory = SortItems(r.data), !.isLoading = FALSE]
    ELSE [S EXCEPT !.error = "Failed to load inventory."]

\* resetForm, lines 201-208
resetForm(S) ==
    [S EXCEPT !.selectedItem = NoItem, !.form = EmptyForm, !.error = NoError]

\* finally { setIsLoading(false) }
Finally(S) == [S EXCEPT !.isLoading = FALSE]

\* catch (error) { setError(message) } finally { setIsLoading(false) }
Catch(S, message) == Finally([S EXCEPT !.error = message])

\* the rest of a handler after its await fetchInventory(): lines 103-110,
\* 145-152, 177-183; the initial load (useEffect) has nothing after it
AfterFetch(op, S, r) ==
    CASE op = "load" -> fetchInventory(S, r)
      [] op \in {"add", "update"} -> Finally(resetForm(fetchInventory(S, r)))
      [] OTHER -> Finally(fetchInventory(S, r))

\* handleEditClick, lines 189-196
handleEditClick(S, item) ==
    [S EXCEPT !.selectedItem = item,
              !.form = [name |-> item.name, amount |-> Num(item.amount),
                        unit |-> item.unit, reorder |-> item.reorder],
              !.error = NoError]

\* the guard of handleAddItem and handleUpdateItem, lines 77 and 118
FormIncomplete(f) == f.name = <<>> \/ f.amount = Str("") \/ f.unit = ""

\* the fallback message of the catch block of each handler
FailureMessage(op) ==
    CASE op = "add" -> "Failed to add item"
      [] op = "update" -> "Failed to update item"
      [] OTHER -> "Failed to delete item"

\* what the user can type into the form
FormValues ==
    {EmptyForm}
    \cup {[name |-> n, amount |-> Num(5), unit |-> "kg", reorder |-> FALSE] :
              n \in ItemNames}
    \cup {[name |-> Rice, amount |-> Str(""), unit |-> "kg", reorder |-> TRUE]}

\* the arrays with exactly the rows of the table, in any order
Listings(db) ==
    {l \in [1..Cardinality(db) -> db] : \A i, j \in 1..Cardinality(db) :
                                            l[i] = l[j] => i = j}

-----------------------------------------------------------------------------
(* ManageInventory against /api/inventory. Every control is disabled while   *)
(* isLoading, so one handler runs at a time; pc.at is the await it is at.    *)

AtIdle == [at |-> "idle", op |-> "none"]

\* the component mounts: useEffect calls fetchInventory
InitPage ==
    /\ MealIdle
    /\ ApiIdle
    /\ InvIdle
    /\ inventory = <<>>
    /\ selectedItem = NoItem
    /\ form = EmptyForm
    /\ error = NoError
    /\ isLoading = TRUE
    /\ pc = [at |-> "fetch", op |-> "load"]
    /\ net = [ok |-> TRUE, data |-> <<>>]

\* the controls take input: no handler is running and isLoading is false
Usable == pc.at = "idle" /\ ~isLoading

\* the user types into the form
EditForm ==
    /\ Usable
    /\ \E f \in FormValues : form' = f
    /\ UNCHANGED <<inventory, selectedItem, error, isLoading, pc, net>>
    /\ UNCHANGED <<mealVars, apiVars, invVars>>

\* the form is submitted: handleUpdateItem with an item selected, else
\* handleAddItem; up to the first await
Submit ==
    /\ Usable
    /\ LET op == IF selectedItem # NoItem THEN "update" ELSE "add"
       IN  IF FormIncomplete(form)
           THEN /\ error' = "All fields are required"
                /\ UNCHANGED <<isLoading, pc>>
           ELSE /\ op = "add" => invNextId <= MaxInv
                /\ isLoading' = TRUE
                /\ error' = NoError
                /\ pc' = [at |-> "mutation", op |-> op,
                          body |-> [id |-> selectedItem.id, name |-> form.name,
                                    amount |-> Number(form.amount).num,
                                    unit |-> form.unit, reorder |-> form.reorder]]
    /\ UNCHANGED <<inventory, selectedItem, form, net>>
    /\ UNCHANGED <<mealVars, apiVars, invVars>>

\* the Edit button of a listed item
EditClick ==
    /\ Usable
    /\ \E i \in 1..Len(inventory) :
           SetPageState(handleEditClick(PageState, inventory[i]))
    /\ UNCHANGED <<pc, net>>
    /\ UNCHANGED <<mealVars, apiVars, invVars>>

\* the Delete button of a listed item: handleDeleteItem up to the first
\* await; nothing happens when the user declines the confirmation
DeleteClick ==
    /\ Usable
    /\ \E i \in 1..Len(inventory), confirmed \in BOOLEAN :
           /\ confirmed
           /\ isLoading' = TRUE
           /\ error' = NoError
           /\ pc' = [at |-> "mutation", op |-> "delete",
                     body |-> [id |-> inventory[i].id]]
    /\ UNCHANGED <<inventory, selectedItem, form, net>>
    /\ UNCHANGED <<mealVars, apiVars, invVars>>

\* the Cancel button, shown while an item is selected
Cancel ==
    /\ Usable
    /\ selectedItem # NoItem
    /\ SetPageState(resetForm(PageState))
    /\ UNCHANGED <<pc, net>>
    /\ UNCHANGED <<mealVars, apiVars, invVars>>

\* /api/inventory serving POST, PUT or DELETE with lib/inventory
ServeMutation(op, body) ==
    CASE op = "add" ->
            addInventory(invDb, invNextId, body.name, body.amount, body.unit,
                         body.reorder)
      [] op = "update" ->
            updateInventory(invDb, body.id, body.name, body.amount, body.unit,
                            body.reorder)
      [] OTHER -> deleteInventory(invDb, body.id)

\* the POST, PUT or DELETE resolves. When the response is ok the handler
\* goes on to await fetchInventory(); when it is not (or fetch rejects) the
\* handler ends in its catch and finally blocks
MutationResolves ==
    /\ pc.at = "mutation"
    /\ \E ok \in BOOLEAN :
           LET out == ServeMutation(pc.op, pc.body)
               found == pc.op # "update" \/ out.item # NoItem
           IN  IF ok /\ found
               THEN /\ invDb' = out.db
                    /\ invNextId' = IF pc.op = "add" THEN invNextId + 1 ELSE invNextId
                    /\ invCall' = [fn |-> pc.op, id |-> pc.body.id, result |-> out.item]
                    /\ pc' = [at |-> "fetch", op |-> pc.op]
                    /\ UNCHANGED <<inventory, selectedItem, form, error, isLoading>>
               ELSE /\ SetPageState(Catch(PageState, FailureMessage(pc.op)))
                    /\ pc' = AtIdle
                    /\ UNCHANGED invVars
    /\ UNCHANGED net
    /\ UNCHANGED <<mealVars, apiVars>>

\* the GET of fetchInventory resolves, with the rows in any order or with a
\* failure, and the handler runs to its end
FetchResolves ==
    /\ pc.at = "fetch"
    /\ \E r \in {[ok |-> FALSE, data |-> <<>>]}
                \cup {[ok |-> TRUE, data |-> l] : l \in Listings(invDb)} :
           /\ net' = r
           /\ SetPageState(AfterFetch(pc.op, PageState, r))
    /\ pc' = AtIdle
    /\ UNCHANGED <<mealVars, apiVars, invVars>>

NextPage ==
    \/ EditForm \/ Submit \/ EditClick \/ DeleteClick \/ Cancel
    \/ MutationResolves \/ FetchResolves

SpecPage == InitPage /\ [][NextPage]_vars

-----------------------------------------------------------------------------
(* The slot quotas of the specification, section 4.1 *)

QuotaSides(sz) == IF sz = "bigger plate" THEN 2 ELSE 1
QuotaEntrees(sz) == CASE sz = "bowl" -> 1 [] sz = "plate" -> 2 [] OTHER -> 3

\* the slots a size requires, in filling order
RequiredSideSlots(sz) == IF QuotaSides(sz) = 1 THEN {"side1"} ELSE SideSlots
RequiredEntreeSlots(sz) ==
    CASE QuotaEntrees(sz) = 1 -> {"entree1"}
      [] QuotaEntrees(sz) = 2 -> {"entree1", "entree2"}
      [] OTHER -> EntreeSlots
RequiredSlots(sz) == RequiredSideSlots(sz) \cup RequiredEntreeSlots(sz)

RequiredSlotsOf(sz, item) ==
    IF item.item_type = "side" THEN RequiredSideSlots(sz) ELSE RequiredEntreeSlots(sz)

FilledSlots(slots) == {s \in slots : meal[s] # Null}

\* C1: for every size the rendered requirements are exactly bowl -> (1,1),
\* plate -> (1,2), bigger plate -> (2,3).
C1_MealRequirements ==
    /\ size = "bowl" => view.requirements = [sides |-> 1, entrees |-> 1]
    /\ size = "plate" => view.requirements = [sides |-> 1, entrees |-> 2]
    /\ size = "bigger plate" => view.requirements = [sides |-> 2, entrees |-> 3]

C1_Witness ==
    /\ size = "plate"
    /\ view.requirements.entrees = 2
    /\ meal.entree3 # Null

\* C2: for every size and every meal, Add to Order is enabled exactly when
\* every slot the size requires is filled, which is exactly when the progress
\* is 100; it is disabled whenever a required slot is empty.
C2_AddToOrderOnlyWhenComplete ==
    /\ ~view.addToOrderDisabled <=> FilledSlots(RequiredSlots(size)) = RequiredSlots(size)
    /\ ~view.addToOrderDisabled <=> view.progress.num = 100 * view.progress.den
    /\ (\E s \in RequiredSlots(size) : meal[s] = Null) => view.addToOrderDisabled

\* a bowl completed by its two required slots, and a plate whose only empty
\* required slot keeps the button disabled although a slot beyond the quota
\* is filled
C2_Witness ==
    \/ /\ size = "bowl"
       /\ ~view.addToOrderDisabled
       /\ meal.side2 = Null /\ meal.entree2 = Null /\ meal.entree3 = Null
    \/ /\ size = "plate"
       /\ view.addToOrderDisabled
       /\ meal.entree2 = Null /\ meal.entree3 # Null /\ meal.side1 # Null
       /\ meal.entree1 # Null

\* C3: for every size and every meal, the progress is filled/total x 100 with
\* total the required sides plus the required entrees and filled the number
\* of filled slots among the required ones; it lies between 0 and 100.
C3_ProgressIsFilledOverTotal ==
    /\ view.progress.den = QuotaSides(size) + QuotaEntrees(size)
    /\ view.progress.num = 100 * Cardinality(FilledSlots(RequiredSlots(size)))
    /\ 0 <= view.progress.num
    /\ view.progress.num <= 100 * view.progress.den

\* a bowl with its side missing and a side beyond the quota filled: 50 percent
C3_Witness ==
    /\ size = "bowl"
    /\ meal.side1 = Null /\ meal.side2 # Null
    /\ meal.entree1 # Null /\ meal.entree2 # Null
    /\ view.progress = [num |-> 100, den |-> 2]

\* C4: for every size, meal and menu item, the button of the item is disabled
\* exactly when every slot of its category required by the size is filled and
\* none of them holds an item with its id; an item in a required slot of its
\* category is never disabled.
C4_DisabledIffFullAndNotOccupying ==
    \A item \in menuItems :
        LET slots == RequiredSlotsOf(size, item)
        IN  /\ item \in view.disabled <=>
                 /\ \A s \in slots : meal[s] # Null
                 /\ \A s \in slots : meal[s].id # item.id
            /\ (\E s \in slots : meal[s] = item) => item \notin view.disabled

\* a plate with both entree slots filled: the two occupants stay enabled, a
\* third entree is disabled; the one side slot is filled and its occupant
\* stays enabled while another side is disabled
C4_Witness ==
    /\ size = "plate"
    /\ meal.entree1 # Null /\ meal.entree2 # Null /\ meal.entree1 # meal.entree2
    /\ meal.side1 # Null
    /\ meal.entree1 \notin view.disabled /\ meal.entree2 \notin view.disabled
    /\ meal.side1 \notin view.disabled
    /\ \E item \in EntreeItems : item \in view.disabled
    /\ \E item \in SideItems : item \in view.disabled

-----------------------------------------------------------------------------
(* Claims about the routes *)

AllDecimal(t) == t # <<>> /\ \A i \in 1..Len(t) : DigitValue(t[i]) < 10
AllHex(t) == t # <<>> /\ \A i \in 1..Len(t) : DigitValue(t[i]) < 16

\* the text is a number: decimal digits with an optional sign, or 0x and
\* hexadecimal digits
IsNumericText(t) ==
    \/ AllDecimal(t)
    \/ Len(t) >= 2 /\ Head(t) \in {"+", "-"} /\ AllDecimal(Tail(t))
    \/ Len(t) >= 3 /\ t[1] = "0" /\ t[2] \in {"x", "X"} /\ AllHex(Tail(Tail(t)))

IsReq(r, route, op) == r.route = route /\ r.op = op

\* C7: DELETE /api/menu with the id missing or not a number answers 400 and
\* does not call deleteMenuItem.
C7_DeleteRejectsNonNumericId ==
    (IsReq(req, "menu", "DELETE") /\ (req.id = JNull \/ ~IsNumericText(req.id.chars)))
        => (resp.status = 400 /\ called = <<>>)

Present(v) == v # Undefined

\* a required field of the request body is missing
RequiredMissing(r) ==
    \/ /\ IsReq(r, "menu", "POST")
       /\ \E f \in {"item_type", "name", "price", "premium"} : ~Present(r.body[f])
    \/ /\ IsReq(r, "transactions", "POST")
       /\ \E f \in {"customerName", "cashierName", "salePrice"} : ~Present(r.body[f])
    \/ /\ IsReq(r, "menu", "PUT")
       /\ ~Present(r.body.id)

\* every required field of the request body is present
RequiredPresent(r) ==
    \/ /\ IsReq(r, "menu", "POST")
       /\ \A f \in {"item_type", "name", "price", "premium"} : Present(r.body[f])
    \/ /\ IsReq(r, "transactions", "POST")
       /\ \A f \in {"customerName", "cashierName", "salePrice"} : Present(r.body[f])
    \/ /\ IsReq(r, "menu", "PUT")
       /\ Present(r.body.id)

\* every required field is present, and the names and the id are not empty,
\* null or zero
RequiredPresentAndTruthy(r) ==
    \/ /\ IsReq(r, "menu", "POST")
       /\ ~Falsy(r.body.item_type) /\ ~Falsy(r.body.name)
       /\ Present(r.body.price) /\ Present(r.body.premium)
    \/ /\ IsReq(r, "transactions", "POST")
       /\ ~Falsy(r.body.customerName) /\ ~Falsy(r.body.cashierName)
       /\ Present(r.body.salePrice)
    \/ /\ IsReq(r, "menu", "PUT")
       /\ ~Falsy(r.body.id)

HasBody(r) == r.op \in {"POST", "PUT"} /\ r.body # BadJson

\* a request with a missing required field answers 400, calls no data-layer
\* function and leaves both tables as they were
MissingRejected ==
    (Idle /\ HasBody(req') /\ RequiredMissing(req'))
        => /\ resp'.status = 400
           /\ called' = <<>>
           /\ menuDb' = menuDb /\ txDb' = txDb

\* C8 as stated: a missing required field gives 400 before the data layer,
\* and a body with every required field present is never answered 400.
C8_PresentNeverRejected ==
    [][ /\ MissingRejected
        /\ (Idle /\ HasBody(req') /\ RequiredPresent(req')) => resp'.status # 400
      ]_vars

\* C8 amended: a missing required field gives 400 before the data layer, and
\* a body whose required fields are present, with item_type, name,
\* customerName, cashierName and id not empty, null or zero, is never
\* answered 400.
C8_ValidationBeforeDataLayer ==
    [][ /\ MissingRejected
        /\ (Idle /\ HasBody(req') /\ RequiredPresentAndTruthy(req'))
               => resp'.status # 400
      ]_vars

\* a menu POST that lacks only premium is answered 400 with a row in the table
C8_Witness ==
    /\ IsReq(req, "menu", "POST")
    /\ req.body # BadJson
    /\ req.body.premium = Undefined
    /\ req.body.item_type = Str("side") /\ req.body.name = Str("n")
    /\ req.body.price = Num(0)
    /\ resp.status = 400
    /\ called = <<>>
    /\ menuDb # {}

HasRow(db, id) == \E row \in db : Num(row.id) = id

\* the response is the one row of the table with the id
IsRowOf(r, db, id) ==
    /\ r.status = 200
    /\ r.kind = "record"
    /\ r.data \in db
    /\ Num(r.data.id) = id

GetTable == IF req.route = "menu" THEN menuDb ELSE txDb

\* C9: GET with an id and PUT /api/menu with an id answer 404 when the data
\* layer finds no row with the id and answer the one row with a success
\* status when it finds it; GET without an id answers the whole list. (A
\* status of 500 is the data layer throwing, which finds nothing either way.)
C9_NotFoundIs404 ==
    /\ (req.op = "GET" /\ resp.status # 500) =>
           IF ParamFalsy(req.id)
           THEN resp.status = 200 /\ resp.kind = "list" /\ resp.data = GetTable
           ELSE LET id == parseInt(req.id.chars)
                IN  IF HasRow(GetTable, id)
                    THEN IsRowOf(resp, GetTable, id)
                    ELSE resp.status = 404
    /\ (IsReq(req, "menu", "PUT") /\ req.body # BadJson /\ ~Falsy(req.body.id)
        /\ resp.status # 500) =>
           IF HasRow(menuDb, req.body.id)
           THEN IsRowOf(resp, menuDb, req.body.id)
           ELSE resp.status = 404

\* a PUT that names a row deleted earlier is answered 404 while another row
\* is still in the table
C9_Witness ==
    /\ IsReq(req, "menu", "PUT")
    /\ req.body # BadJson
    /\ req.body.id = Num(1)
    /\ resp.status = 404
    /\ menuNextId = 3
    /\ HasRow(menuDb, Num(2))

\* C10: a POST that created a row answers that row, with status 201 on
\* /api/menu and 200 on /api/transactions; the transaction is created with
\* items, meals, appetizers and drinks 0 where the body lacks them.
C10_PostReturnsCreated ==
    (req.op = "POST" /\ called # <<>> /\ resp.status # 500) =>
        /\ resp.kind = "record"
        /\ IF req.route = "menu"
           THEN /\ resp.status = 201
                /\ resp.data \in menuDb
                /\ resp.data.id = menuNextId - 1
                /\ resp.data.name = req.body.name
           ELSE /\ resp.status = 200
                /\ resp.data \in txDb
                /\ resp.data.id = txNextId - 1
                /\ resp.data.customerName = req.body.customerName
                /\ \A f \in CountFields :
                       resp.data[f] = IF Present(req.body[f]) THEN req.body[f]
                                      ELSE Num(0)

\* a transaction posted without meals: created with meals 0 and items as sent
C10_Witness ==
    /\ IsReq(req, "transactions", "POST")
    /\ req.body # BadJson
    /\ req.body.meals = Undefined /\ req.body.items = Num(2)
    /\ resp.status = 200
    /\ resp.data.meals = Num(0) /\ resp.data.items = Num(2)
    /\ resp.data \in txDb

\* C11 as stated: whenever the data layer or the body parsing throws, the
\* handler answers 500 with an error message and the caught error embedded.
C11_ErrorEmbeddedEverywhere ==
    req.thrown => (resp.status = 500 /\ resp.kind = "error" /\ resp.details)

\* C11 amended: whenever the data layer or the body parsing throws, every
\* handler answers 500 with a JSON error message and no exception escapes;
\* the caught error is embedded (details) by the transactions handlers and
\* by none of the menu handlers.
C11_ThrowIs500 ==
    /\ ~Idle => resp.status \in {200, 201, 400, 404, 500}
    /\ req.thrown =>
           /\ resp.status = 500
           /\ resp.kind = "error"
           /\ resp.details <=> req.route = "transactions"
    /\ (~Idle /\ ~req.thrown) => resp.status # 500

\* a transaction POST whose insert throws while a transaction is stored
C11_Witness ==
    /\ IsReq(req, "transactions", "POST")
    /\ req.thrown
    /\ req.body # BadJson
    /\ called = <<"addTransaction">>
    /\ resp.status = 500 /\ resp.details
    /\ txDb # {}

\* C17: for every size and meal, the entries getRequiredItems reports plus
\* the filled slots getProgress counts make the total of required slots, so
\* the alert is shown exactly when Add to Order is disabled.
C17_MissingPlusFilledIsTotal ==
    /\ 100 * Len(view.remaining) + view.progress.num = 100 * view.progress.den
    /\ view.alert <=> view.addToOrderDisabled

\* a plate with one entree missing and the slots beyond its quota filled
C17_Witness ==
    /\ size = "plate"
    /\ meal.side1 # Null /\ meal.side2 # Null
    /\ meal.entree1 = Null /\ meal.entree2 # Null /\ meal.entree3 # Null
    /\ view.remaining = <<"first entree">>
    /\ view.alert

\* the rows of the table other than the one with the id
Others(db, id) == {item \in db : item.id # id}

\* C12: the reorder flag is set by hand, never computed. Every add and update
\* stores the reorder argument it was given, whatever the amount, and no call
\* changes a row other than the one it names; hence each stored item carries
\* the reorder argument of the last add or update that wrote it.
C12_ReorderIsManual ==
    [][ LET c == invCall'
        IN  /\ c.fn = "addInventory" =>
                /\ c.result.reorder = c.reorder
                /\ c.result.amount = c.amount
                /\ c.result.id \notin {item.id : item \in invDb}
                /\ invDb' = invDb \cup {c.result}
            /\ c.fn = "updateInventory" =>
                /\ Others(invDb', c.id) = Others(invDb, c.id)
                /\ \A item \in invDb' : item.id = c.id =>
                       /\ item.reorder = c.reorder
                       /\ item.amount = c.amount
                       /\ item = c.result
                /\ (\E item \in invDb' : item.id = c.id)
                       <=> (\E item \in invDb : item.id = c.id)
            /\ c.fn = "deleteInventory" =>
                /\ Others(invDb', c.id) = Others(invDb, c.id)
                /\ \A item \in invDb' : item.id # c.id
      ]_vars

\* an update left an item that ran out without the flag, next to an item in
\* stock that carries it
C12_Witness ==
    /\ invCall.fn = "updateInventory"
    /\ invCall.amount = 0 /\ ~invCall.reorder
    /\ \E item \in invDb :
           item.id = invCall.id /\ item.amount = 0 /\ ~item.reorder
    /\ \E item \in invDb :
           item.id # invCall.id /\ item.amount = 5 /\ item.reorder

\* case-insensitive alphabetical order of two names: a is b or before it
RECURSIVE NameLeq(_, _)
NameLeq(a, b) ==
    \/ a = <<>>
    \/ /\ b # <<>>
       /\ \/ LetterRank(Head(a)) < LetterRank(Head(b))
          \/ /\ LetterRank(Head(a)) = LetterRank(Head(b))
             /\ NameLeq(Tail(a), Tail(b))

\* the elements of a list
Range(l) == {l[i] : i \in 1..Len(l)}

\* C13: the displayed list is always in ascending case-insensitive order of
\* name, and while the last fetch is a successful one it holds exactly the
\* items that fetch returned, each once
C13_SortedAndComplete ==
    /\ \A i, j \in 1..Len(inventory) :
           i < j => NameLeq(inventory[i].name, inventory[j].name)
    /\ net.ok => /\ Len(inventory) = Len(net.data)
                 /\ Range(inventory) = Range(net.data)

\* a refresh has returned Soy before Rice and the list shows Rice first
C13_Witness ==
    /\ pc.at = "idle"
    /\ net.ok
    /\ Len(net.data) = 2
    /\ net.data[1].name = Soy /\ net.data[2].name = Rice
    /\ inventory = <<net.data[2], net.data[1]>>

\* C14: a step in which a fetch of the list fails, ending its operation,
\* leaves error at 'Failed to load inventory.'
C14_FailedFetchLeavesError ==
    [][(pc.at = "fetch" /\ ~net'.ok) => error' = "Failed to load inventory."]_vars

\* C15: with no request in flight isLoading is false
C15_IdleIsNotLoading == pc.at = "idle" => ~isLoading

\* C16: with no request in flight a selected item is one of the listed items
C16_SelectedItemIsListed ==
    (pc.at = "idle" /\ selectedItem # NoItem)
        => \E i \in 1..Len(inventory) : inventory[i].id = selectedItem.id

=============================================================================
